---------------------------- MODULE Spec2Model ----------------------------
(***************************************************************************)
(* A model of src/index.ts: the Discord-gated invite generator.            *)
(*                                                                         *)
(* The process reads six settings from the environment, validates them,    *)
(* binds an HTTP listener and then serves three routes (/, /login,         *)
(* /callback) plus the framework's error hook.  Handlers are async: they   *)
(* run atomically between two awaits, and handlers of different requests   *)
(* interleave at the awaits.  One action of the model is one such atomic   *)
(* stretch of a handler.  Text is modelled as a sequence of fragments      *)
(* (strings); the template's two placeholders are fragments of their own.  *)
(***************************************************************************)
EXTENDS Integers, Sequences, FiniteSets, TLC

VARIABLES
    phase,              \* "boot" | "exited" | "listening"
    exitCode,           \* the status given to process.exit, -1 while running
    env,                \* process.env: the five plain settings
    envRoleIds,         \* process.env.REQUIRED_ROLE_IDS: [defined, chars]
    REQUIRED_ROLE_IDS,  \* line 39: the parsed role ids
    templateFile,       \* index.html on disk: "unreadable" or its text
    htmlTemplate,       \* line 16: the cached template text
    reads,              \* fs.readFile calls settled so far (up to MaxReads)
    req                 \* the requests in flight, one per connection slot

vars == << phase, exitCode, env, envRoleIds, REQUIRED_ROLE_IDS,
           templateFile, htmlTemplate, reads, req >>

----------------------------------------------------------------------------
(* Small sets the inputs are drawn from.                                   *)

\* Connection slots: the requests that can be in flight at the same time.
\* A slot is reused once its response is sent, so a behaviour serves any
\* number of requests.
Slots == {"c1", "c2"}

\* The value of an unset environment variable or query parameter.
Absent == "<undefined>"

PlainSettings == {"DISCORD_CLIENT_ID", "DISCORD_CLIENT_SECRET",
                  "DISCORD_REDIRECT_URI", "REQUIRED_SERVER_ID",
                  "COMMAND_TO_RUN"}

SettingValue ==
    [ DISCORD_CLIENT_ID    |-> "client-id",
      DISCORD_CLIENT_SECRET |-> "client-secret",
      DISCORD_REDIRECT_URI |-> "http://host/callback",
      REQUIRED_SERVER_ID   |-> "g1",
      COMMAND_TO_RUN       |-> "mkinvite" ]

\* REQUIRED_ROLE_IDS as written in the environment, character by character:
\* every string of at most MaxSeparators commas and blanks, which names no
\* role, and two strings that name roles ("a" and "a, b ,,").
MaxSeparators == 3
Separators == {",", " "}
RoleIdStrings ==
    UNION {[1..n -> Separators] : n \in 0..MaxSeparators}
        \cup { << "a" >>, << "a", ",", " ", "b", " ", ",", "," >> }

\* What the identity provider can answer.
Statuses  == {200, 401, 403}
BodyKinds == {"object", "null", "invalid"}   \* JSON of the expected shape,
                                              \* JSON null, not JSON at all
GuildLists == { {}, {"g2"}, {"g1", "g2"} }
RoleLists  == { {}, {"c"}, {"a"}, {"b", "c"} }
AuthCodes  == {Absent, "", "x"}

\* What the spawned command can write.
Stdouts == {"invite-1", "$$"}
Stderrs == {"", "boom", "$$"}

\* index.html as it may be found on disk.
\* The reads of index.html are counted up to MaxReads; the count then stays.
MaxReads == 2

TITLE   == "{{TITLE}}"
MESSAGE == "{{{MESSAGE_CONTENT}}}"
Unreadable == << "<unreadable>" >>
TemplateFiles ==
    { Unreadable,
      << >>,
      << "<html>", TITLE, "<body>", MESSAGE, "</html>" >>,
      << "<html>", "</html>" >> }

----------------------------------------------------------------------------
(* Configuration, lines 8-14 and 34-44.                                    *)

DISCORD_CLIENT_ID     == env["DISCORD_CLIENT_ID"]
DISCORD_CLIENT_SECRET == env["DISCORD_CLIENT_SECRET"]
DISCORD_REDIRECT_URI  == env["DISCORD_REDIRECT_URI"]
REQUIRED_SERVER_ID    == env["REQUIRED_SERVER_ID"]
COMMAND_TO_RUN        == env["COMMAND_TO_RUN"]

\* JavaScript's !x for a string or undefined.
Falsy(v) == v = Absent \/ v = ""

RECURSIVE Split(_, _)
\* s.split(sep): the pieces of s between the separators.
Split(s, sep) ==
    IF \A i \in 1..Len(s) : s[i] # sep
    THEN << s >>
    ELSE LET i == CHOOSE k \in 1..Len(s) :
                     s[k] = sep /\ \A j \in 1..(k-1) : s[j] # sep
         IN  << SubSeq(s, 1, i-1) >> \o Split(SubSeq(s, i+1, Len(s)), sep)

RECURSIVE Trim(_)
\* id.trim(): leading and trailing blanks removed.
Trim(s) ==
    IF s = << >> THEN s
    ELSE IF Head(s) = " " THEN Trim(Tail(s))
    ELSE IF s[Len(s)] = " " THEN Trim(SubSeq(s, 1, Len(s) - 1))
    ELSE s

RECURSIVE Concat(_)
\* The characters of one id put back into one string.
Concat(s) == IF s = << >> THEN "" ELSE Head(s) \o Concat(Tail(s))

\* split(',').filter(id => id): the entries are not trimmed.
ParseRoleIdsNoTrim(chars) ==
    SelectSeq(Split(chars, ","), LAMBDA p : p # << >>)

\* Line 39: split(',').map(id => id.trim()).filter(id => id).
ParseRoleIds(chars) ==
    LET pieces  == Split(chars, ",")
        trimmed == [i \in 1..Len(pieces) |-> Trim(pieces[i])]
        kept    == SelectSeq(trimmed, LAMBDA p : p # << >>)
    IN  kept

\* A validation that forgets the command.
MissingSettingNoCommand ==
    \/ \E n \in PlainSettings \ {"COMMAND_TO_RUN"} : Falsy(env[n])
    \/ ~envRoleIds.defined
    \/ envRoleIds.chars = << >>

\* Line 34: one of the six settings is missing.
MissingSetting ==
    \/ \E n \in PlainSettings : Falsy(env[n])
    \/ ~envRoleIds.defined
    \/ envRoleIds.chars = << >>

----------------------------------------------------------------------------
(* The HTML renderer, lines 16-32.                                         *)

Fallback == << "Error loading page template. Please check server logs." >>

\* String.prototype.replace with a replacement STRING expands the patterns
\* $$ (a dollar sign) and $& (the matched text) inside the replacement.
Expand(fragment, matched) ==
    IF fragment = "$$" THEN "$"
    ELSE IF fragment = "$&" THEN matched
    ELSE fragment

\* text.replace(marker, replacement): the first occurrence only.
ReplaceFirst(text, marker, replacement) ==
    IF \A i \in 1..Len(text) : text[i] # marker
    THEN text
    ELSE LET i == CHOOSE k \in 1..Len(text) :
                     text[k] = marker /\ \A j \in 1..(k-1) : text[j] # marker
             r == [k \in 1..Len(replacement) |-> Expand(replacement[k], marker)]
         IN  SubSeq(text, 1, i-1) \o r \o SubSeq(text, i+1, Len(text))

\* A renderer that fills in the title and leaves the body placeholder.
SubstituteTitleOnly(template, title, messageContent) ==
    ReplaceFirst(template, TITLE, << title >>)

\* Lines 29-31: the two substitutions, the title's first.
Substitute(template, title, messageContent) ==
    ReplaceFirst(ReplaceFirst(template, TITLE, << title >>),
                 MESSAGE, messageContent)

\* A renderer that reads the file on every call.
renderHtmlUncached(q, title, messageContent) ==
    [q EXCEPT !.pc = "readFile", !.title = title,
              !.messageContent = messageContent]

\* Lines 19-32 up to the await: with a cached template the page is returned at
\* once, otherwise the call waits for fs.readFile.
renderHtml(q, title, messageContent) ==
    IF htmlTemplate # << >>
    THEN [q EXCEPT !.pc = "done", !.title = title,
                   !.messageContent = messageContent,
                   !.body = Substitute(htmlTemplate, title, messageContent)]
    ELSE [q EXCEPT !.pc = "readFile", !.title = title,
                   !.messageContent = messageContent]

\* A renderer without its try/catch: the read's error leaves renderHtml.
ReadFailedRethrown(q) == [q EXCEPT !.pc = "crashed"]

\* Lines 24-27: the read failed; the error is logged and the fallback returned.
ReadFailed(q) ==
    [q EXCEPT !.pc = "done", !.body = Fallback,
              !.log = @ \o << "Error reading HTML template:", "ENOENT" >>]

\* Lines 23 and 29-31: the read succeeded; the text is cached and used.
ReadSucceeded(q, text) ==
    [q EXCEPT !.pc = "done",
              !.body = Substitute(text, q.title, q.messageContent)]

----------------------------------------------------------------------------
(* The pages the handlers ask the renderer for.                            *)

RECURSIVE Join(_, _)
\* ids.join(sep)
Join(ids, sep) ==
    IF ids = << >> THEN ""
    ELSE IF Len(ids) = 1 THEN ids[1]
    ELSE ids[1] \o sep \o Join(Tail(ids), sep)

LandingContent ==
    << "Please <a href='/login' class='button'>Login with Discord</a> to continue." >>
NoCodeContent ==
    << "<p class='error'>No authorization code provided.</p>" >>
ExchangeErrorContent(description) ==
    << "<p class='error'>Error exchanging code: ", description, "</p>" >>
GuildsErrorContent ==
    << "<p class='error'>Error fetching user guilds.</p>" >>
ServerDeniedContent ==
    << "<p class='error'>You are not a member of the required server (ID: ",
       REQUIRED_SERVER_ID, ").</p>" >>
PermissionErrorContent ==
    << "<p class='error'>Could not verify your roles in the server.</p>" >>
MemberErrorContent ==
    << "<p class='error'>Error fetching your member details from the server.</p>" >>
RoleDeniedContent ==
    << "<p class='error'>You do not have any of the required roles (IDs: ",
       Join([i \in 1..Len(REQUIRED_ROLE_IDS) |-> Concat(REQUIRED_ROLE_IDS[i])],
            ", "),
       ") in the server.</p>" >>
CommandStderrContent(stderr) ==
    << "Command executed with error: <pre>", stderr, "</pre>" >>
SuccessContent(stdout) ==
    << "<p class='success'>Here is your invite code:</p><pre>", stdout, "</pre>" >>
CommandFailedContent ==
    << "<p class='error'>Error running command on the system.</p>" >>
UnexpectedContent ==
    << "<p class='error'>An unexpected error occurred.</p>" >>
CriticalContent ==
    << "<p class='error'>A critical server error occurred.</p>" >>

\* Line 62: the authorize URL with its four parameters.
AuthorizeUrl ==
    << "https://discord.com/api/oauth2/authorize?client_id=", DISCORD_CLIENT_ID,
       "&redirect_uri=", DISCORD_REDIRECT_URI,
       "&response_type=code&scope=identify guilds guilds.members.read" >>

----------------------------------------------------------------------------
(* One request: the handler's local values and what it has done so far.    *)

NoResponse   == [status |-> 0, body |-> "none"]
NetworkError == [status |-> 0, body |-> "threw"]     \* fetch itself rejected
UpstreamResponses == [status : Statuses, body : BodyKinds] \cup {NetworkError}

\* Response.ok
Ok(response) == response.status >= 200 /\ response.status <= 299

IdleRequest ==
    [ pc |-> "idle",            \* where the handler is suspended
      route |-> "",
      code |-> Absent,          \* query.code
      status |-> 200,           \* set.status
      tokenResponse  |-> NoResponse,
      access_token   |-> "",
      guildsResponse |-> NoResponse,
      guilds |-> {},            \* the ids of the fetched guilds
      memberResponse |-> NoResponse,
      roles |-> {},             \* member.roles
      stdout |-> "", stderr |-> "",
      title |-> "", messageContent |-> << >>,   \* renderHtml's arguments
      body |-> << >>,           \* the text returned to the caller
      location |-> << >>,       \* the redirect's target
      proc |-> "none",          \* the child: "none" | "running" | "failed"
      captured |-> << >>,       \* the child's streams read to their end
      log |-> << >>,            \* what the handler wrote with console.error
      calls |-> << >> ]         \* outbound calls and spawns made, in order

\* console.error(label, data)
Logged(q, label, data) == [q EXCEPT !.log = @ \o << label, data >>]

\* The bearer credential the token endpoint issues.
IssuedToken == "tok"

\* The error body an endpoint sends, and a thrown error, as they are printed.
ErrorData   == "{message, code}"
ThrownError == "TypeError"

\* A guard that prints the request's credential with the error.
CatchCallbackLogsToken(q) ==
    renderHtml(Logged([q EXCEPT !.status = 500], "Callback error:",
                      q.access_token),
               "System Error", UnexpectedContent)

\* A guard that renders the page but leaves the status alone.
CatchCallbackNoStatus(q) == renderHtml(q, "System Error", UnexpectedContent)

\* Lines 163-167: the route's own guard.
CatchCallback(q) ==
    renderHtml(Logged([q EXCEPT !.status = 500], "Callback error:", ThrownError),
               "System Error", UnexpectedContent)

\* Lines 157-161: the guard around the command.
CatchCommand(q) ==
    renderHtml(Logged([q EXCEPT !.status = 500], "Error running command:",
                      ThrownError),
               "System Error", CommandFailedContent)

\* A membership test satisfied by any guild at all.
isInAnyServer(guilds) == guilds # {}

\* Line 115
isInServer(guilds) == REQUIRED_SERVER_ID \in guilds

\* every() where the code has some().
hasEveryRequiredRole(roles) ==
    \A i \in 1..Len(REQUIRED_ROLE_IDS) : Concat(REQUIRED_ROLE_IDS[i]) \in roles

\* Line 139
hasRequiredRole(roles) ==
    \E i \in 1..Len(REQUIRED_ROLE_IDS) : Concat(REQUIRED_ROLE_IDS[i]) \in roles

\* A code check that only looks for undefined.
CodeStepUndefinedOnly(q, code) ==
    IF code = Absent
    THEN renderHtml([q EXCEPT !.code = code, !.status = 400],
                    "Error", NoCodeContent)
    ELSE [q EXCEPT !.code = code, !.pc = "token", !.calls = << "token" >>]

\* Lines 68-89: the code check, then the token exchange is sent.
CodeStep(q, code) ==
    IF Falsy(code)
    THEN renderHtml([q EXCEPT !.code = code, !.status = 400],
                    "Error", NoCodeContent)
    ELSE [q EXCEPT !.code = code, !.pc = "token", !.calls = << "token" >>]

\* An error branch that forgets set.status.
TokenErrorNoStatus(q) ==
    renderHtml(q, "Login Error", ExchangeErrorContent("invalid_grant"))

\* Lines 93-95: the exchange was refused; its status is forwarded.
TokenError(q) ==
    renderHtml(Logged([q EXCEPT !.status = q.tokenResponse.status],
                      "Discord token exchange error:", ErrorData),
               "Login Error", ExchangeErrorContent("invalid_grant"))

\* A denial without its return: the handler goes on to the member fetch.
DenyServerFallThrough(q) ==
    [q EXCEPT !.pc = "member", !.calls = Append(@, "member")]

\* Line 118: not in the required server.
DenyServer(q) == renderHtml(q, "Access Denied", ServerDeniedContent)

\* Line 142: none of the required roles.
DenyRole(q) == renderHtml(q, "Access Denied", RoleDeniedContent)

\* Lines 91-105: the token endpoint answered; the guilds fetch is sent.
TokenStep(q, response) ==
    LET q0 == [q EXCEPT !.tokenResponse = response] IN
    IF response = NetworkError THEN CatchCallback(q0)
    ELSE IF ~Ok(response)
    THEN IF response.body = "object"
         THEN TokenError(q0)
         ELSE IF response.body = "null"   \* logged, then null.error_description
         THEN CatchCallback(Logged(q0, "Discord token exchange error:", "null"))
         ELSE CatchCallback(q0)           \* json() rejects
    ELSE IF response.body = "object"
    THEN [q0 EXCEPT !.access_token = IssuedToken, !.pc = "guilds",
                    !.calls = Append(@, "guilds")]
    ELSE CatchCallback(q0)

\* Lines 107-126: the guilds endpoint answered; the member fetch is sent.
GuildsStep(q, response, guilds) ==
    LET q0 == [q EXCEPT !.guildsResponse = response] IN
    IF response = NetworkError THEN CatchCallback(q0)
    ELSE IF ~Ok(response)
    THEN IF response.body = "invalid"
         THEN CatchCallback(q0)
         ELSE renderHtml(Logged([q0 EXCEPT !.status = response.status],
                                "Discord guilds fetch error:", ErrorData),
                         "Error", GuildsErrorContent)
    ELSE IF response.body # "object" THEN CatchCallback(q0)
    ELSE LET q1 == [q0 EXCEPT !.guilds = guilds] IN
         IF ~isInServer(guilds)
         THEN DenyServer(q1)
         ELSE [q1 EXCEPT !.pc = "member", !.calls = Append(@, "member")]

\* Lines 128-147: the member endpoint answered; bun is imported.
MemberStep(q, response, roles) ==
    LET q0 == [q EXCEPT !.memberResponse = response] IN
    IF response = NetworkError THEN CatchCallback(q0)
    ELSE IF ~Ok(response)
    THEN IF response.body = "invalid"
         THEN CatchCallback(q0)
         ELSE IF response.status = 403
         THEN renderHtml(Logged(q0, "Discord member fetch error:", ErrorData),
                         "Permission Error", PermissionErrorContent)
         ELSE renderHtml(Logged([q0 EXCEPT !.status = response.status],
                                "Discord member fetch error:", ErrorData),
                         "Error", MemberErrorContent)
    ELSE IF response.body # "object" THEN CatchCallback(q0)
    ELSE LET q1 == [q0 EXCEPT !.roles = roles] IN
         IF ~hasRequiredRole(roles)
         THEN DenyRole(q1)
         ELSE [q1 EXCEPT !.pc = "spawn"]

\* Line 148: the command is spawned, or cannot be launched.
SpawnStep(q, launched) ==
    LET q0 == [q EXCEPT !.calls = Append(@, "spawn")] IN
    IF launched
    THEN [q0 EXCEPT !.proc = "running", !.pc = "stdout"]
    ELSE CatchCommand([q0 EXCEPT !.proc = "failed"])

\* A handler that answers as soon as stdout has ended.
StdoutStepResponds(q, text) ==
    renderHtml([q EXCEPT !.stdout = text, !.captured = Append(@, "stdout")],
               "Success!", SuccessContent(text))

\* Line 149: stdout read to its end.
StdoutStep(q, text) ==
    [q EXCEPT !.stdout = text, !.captured = Append(@, "stdout"),
              !.pc = "stderr"]

\* Lines 150-156: stderr read to its end, then the page.
StderrStep(q, text) ==
    LET q0 == [q EXCEPT !.stderr = text, !.captured = Append(@, "stderr")] IN
    IF text # ""
    THEN renderHtml(Logged(q0, "Error: ", text),
                    "Error", CommandStderrContent(text))
    ELSE renderHtml(q0, "Success!", SuccessContent(q0.stdout))

----------------------------------------------------------------------------
(* The state machine.                                                      *)

Init ==
    /\ phase = "boot"
    /\ exitCode = -1
    /\ env \in [PlainSettings -> {Absent, ""}] \cup
               {[n \in PlainSettings |-> SettingValue[n]]} \cup
               {[[n \in PlainSettings |-> SettingValue[n]] EXCEPT ![m] = v] :
                    m \in PlainSettings, v \in {Absent, ""}}
    /\ envRoleIds \in {[defined |-> FALSE, chars |-> << >>]} \cup
                      {[defined |-> TRUE, chars |-> s] : s \in RoleIdStrings}
    /\ REQUIRED_ROLE_IDS = << >>
    /\ templateFile \in TemplateFiles
    /\ htmlTemplate = << >>
    /\ reads = 0
    /\ req = [r \in Slots |-> IdleRequest]

\* Lines 34-44 and 175: validate the settings, then exit or listen.
Startup ==
    /\ phase = "boot"
    /\ IF MissingSetting
       THEN /\ phase' = "exited" /\ exitCode' = 1
            /\ UNCHANGED REQUIRED_ROLE_IDS
       ELSE /\ REQUIRED_ROLE_IDS' = ParseRoleIds(envRoleIds.chars)
            /\ IF REQUIRED_ROLE_IDS' = << >>
               THEN phase' = "exited" /\ exitCode' = 1
               ELSE phase' = "listening" /\ UNCHANGED exitCode
    /\ UNCHANGED << env, envRoleIds, templateFile, htmlTemplate, reads, req >>

Config == << phase, exitCode, env, envRoleIds, REQUIRED_ROLE_IDS, templateFile >>

Accepts(r) == phase = "listening" /\ req[r].pc = "idle"

\* Lines 48-54
GetRoot(r) ==
    /\ Accepts(r)
    /\ req' = [req EXCEPT ![r] =
                 renderHtml([IdleRequest EXCEPT !.route = "/"],
                            "Welcome to the Bits and Bytes PDS Invite generator",
                            LandingContent)]
    /\ UNCHANGED << Config, htmlTemplate, reads >>

\* A login route that answers with a rendered page.
GetLoginRendered(r) ==
    /\ Accepts(r)
    /\ req' = [req EXCEPT ![r] =
                 renderHtml([IdleRequest EXCEPT !.route = "/login"],
                            "Login", AuthorizeUrl)]
    /\ UNCHANGED << Config, htmlTemplate, reads >>

\* Lines 55-63
GetLogin(r) ==
    /\ Accepts(r)
    /\ req' = [req EXCEPT ![r] =
                 [IdleRequest EXCEPT !.route = "/login", !.status = 302,
                                     !.location = AuthorizeUrl, !.pc = "done"]]
    /\ UNCHANGED << Config, htmlTemplate, reads >>

\* Lines 169-174: a request no route matches reaches the error hook.
OnError(r) ==
    /\ Accepts(r)
    /\ req' = [req EXCEPT ![r] =
                 renderHtml([IdleRequest EXCEPT
                                !.route = "*", !.status = 500,
                                !.log = << "Unhandled error [NOT_FOUND]:",
                                           "NotFoundError" >>],
                            "System Error", CriticalContent)]
    /\ UNCHANGED << Config, htmlTemplate, reads >>

\* Lines 64-89
GetCallback(r) ==
    /\ Accepts(r)
    /\ \E code \in AuthCodes :
         req' = [req EXCEPT ![r] =
                   CodeStep([IdleRequest EXCEPT !.route = "/callback"], code)]
    /\ UNCHANGED << Config, htmlTemplate, reads >>

TokenResponse(r) ==
    /\ req[r].pc = "token"
    /\ \E response \in UpstreamResponses :
         req' = [req EXCEPT ![r] = TokenStep(req[r], response)]
    /\ UNCHANGED << Config, htmlTemplate, reads >>

GuildsResponse(r) ==
    /\ req[r].pc = "guilds"
    /\ \E response \in UpstreamResponses, guilds \in GuildLists :
         req' = [req EXCEPT ![r] = GuildsStep(req[r], response, guilds)]
    /\ UNCHANGED << Config, htmlTemplate, reads >>

MemberResponse(r) ==
    /\ req[r].pc = "member"
    /\ \E response \in UpstreamResponses, roles \in RoleLists :
         req' = [req EXCEPT ![r] = MemberStep(req[r], response, roles)]
    /\ UNCHANGED << Config, htmlTemplate, reads >>

Spawn(r) ==
    /\ req[r].pc = "spawn"
    /\ \E launched \in BOOLEAN :
         req' = [req EXCEPT ![r] = SpawnStep(req[r], launched)]
    /\ UNCHANGED << Config, htmlTemplate, reads >>

StdoutEnd(r) ==
    /\ req[r].pc = "stdout"
    /\ \E text \in Stdouts :
         req' = [req EXCEPT ![r] = StdoutStep(req[r], text)]
    /\ UNCHANGED << Config, htmlTemplate, reads >>

StderrEnd(r) ==
    /\ req[r].pc = "stderr"
    /\ \E text \in Stderrs :
         req' = [req EXCEPT ![r] = StderrStep(req[r], text)]
    /\ UNCHANGED << Config, htmlTemplate, reads >>

\* A read that caches the finished page in place of the template text.
ReadFileDoneCachesPage(r) ==
    /\ req[r].pc = "readFile"
    /\ IF templateFile = Unreadable
       THEN /\ req' = [req EXCEPT ![r] = ReadFailed(req[r])]
            /\ UNCHANGED htmlTemplate
       ELSE /\ htmlTemplate' = Substitute(templateFile, req[r].title,
                                          req[r].messageContent)
            /\ req' = [req EXCEPT ![r] = ReadSucceeded(req[r], templateFile)]
    /\ reads' = IF reads < MaxReads THEN reads + 1 ELSE reads
    /\ UNCHANGED Config

\* Lines 21-31: fs.readFile settles and renderHtml returns.
ReadFileDone(r) ==
    /\ req[r].pc = "readFile"
    /\ IF templateFile = Unreadable
       THEN /\ req' = [req EXCEPT ![r] = ReadFailed(req[r])]
            /\ UNCHANGED htmlTemplate
       ELSE /\ htmlTemplate' = templateFile
            /\ req' = [req EXCEPT ![r] = ReadSucceeded(req[r], templateFile)]
    /\ reads' = IF reads < MaxReads THEN reads + 1 ELSE reads
    /\ UNCHANGED Config

\* The response is sent; the request's values are dropped with it.
Respond(r) ==
    /\ req[r].pc = "done"
    /\ req' = [req EXCEPT ![r] = IdleRequest]
    /\ UNCHANGED << Config, htmlTemplate, reads >>

Next ==
    \/ Startup
    \/ \E r \in Slots :
         \/ GetRoot(r)
         \/ GetLogin(r)
         \/ OnError(r)
         \/ GetCallback(r)
         \/ TokenResponse(r)
         \/ GuildsResponse(r)
         \/ MemberResponse(r)
         \/ Spawn(r)
         \/ StdoutEnd(r)
         \/ StderrEnd(r)
         \/ ReadFileDone(r)
         \/ Respond(r)

Spec == Init /\ [][Next]_vars

\* Every call a handler waits for returns: the identity provider answers or
\* the fetch rejects, the spawn returns or throws, the child closes stdout and
\* stderr, the read of the template ends, and a finished response is sent.
Fairness ==
    \A r \in Slots :
        /\ WF_vars(TokenResponse(r))
        /\ WF_vars(GuildsResponse(r))
        /\ WF_vars(MemberResponse(r))
        /\ WF_vars(Spawn(r))
        /\ WF_vars(StdoutEnd(r))
        /\ WF_vars(StderrEnd(r))
        /\ WF_vars(ReadFileDone(r))
        /\ WF_vars(Respond(r))

SpecLive == Init /\ [][Next]_vars /\ Fairness

----------------------------------------------------------------------------
(* Startup alone, over every permission-tag setting of at most             *)
(* MaxRoleChars characters and the setting "a, b ,,c": the other settings  *)
(* are present, so that line 39 is what decides.                           *)

MaxRoleChars == 3
RoleChars == {"a", "b", ",", " "}
ExampleRoleIds == << "a", ",", " ", "b", " ", ",", ",", "c" >>
ParseStrings ==
    UNION {[1..n -> RoleChars] : n \in 0..MaxRoleChars} \cup {ExampleRoleIds}

InitParse ==
    /\ phase = "boot"
    /\ exitCode = -1
    /\ env = [n \in PlainSettings |-> SettingValue[n]]
    /\ envRoleIds \in {[defined |-> TRUE, chars |-> s] : s \in ParseStrings}
    /\ REQUIRED_ROLE_IDS = << >>
    /\ templateFile = << "<html>", TITLE, "<body>", MESSAGE, "</html>" >>
    /\ htmlTemplate = << >>
    /\ reads = 0
    /\ req = [r \in Slots |-> IdleRequest]

NextParse == Startup

SpecParse == InitParse /\ [][NextParse]_vars

----------------------------------------------------------------------------
(* Vocabulary of the properties.                                           *)

Called(q, step) == \E i \in 1..Len(q.calls) : q.calls[i] = step
Times(q, step)  == Cardinality({i \in 1..Len(q.calls) : q.calls[i] = step})
RequiredRoles   ==
    {Concat(REQUIRED_ROLE_IDS[i]) : i \in 1..Len(REQUIRED_ROLE_IDS)}
Answered(response) == response.body \in BodyKinds   \* the endpoint sent a status
Decoded(response)  == response.body = "object"

\* What renderHtml hands back for q's page: the page put into the template
\* on disk, or the fallback text when the template cannot be read.
Rendered(q) ==
    q.body = IF templateFile = Unreadable THEN Fallback
             ELSE Substitute(templateFile, q.title, q.messageContent)

\* q has answered with this status and this page.
Answers(q, status, title, content) ==
    /\ q.status = status
    /\ q.title = title
    /\ q.messageContent = content
    /\ Rendered(q)

\* Steps 1-4 of the pipeline all passed for q.
Verified(q) ==
    /\ q.route = "/callback"
    /\ ~Falsy(q.code)
    /\ Ok(q.tokenResponse)
    /\ Ok(q.guildsResponse) /\ REQUIRED_SERVER_ID \in q.guilds
    /\ Ok(q.memberResponse) /\ q.roles \cap RequiredRoles # {}

----------------------------------------------------------------------------
(* C1: The command is spawned for a request only if that request is a      *)
(* /callback request with a code, a successful token exchange, a           *)
(* successful groups fetch whose list holds the required group, and a      *)
(* successful role fetch whose list shares an id with the required set.    *)
C1_SpawnOnlyWhenVerified ==
    \A r \in Slots :
        (Called(req[r], "spawn") \/ req[r].proc # "none"
            \/ req[r].pc \in {"spawn", "stdout", "stderr"})
        => Verified(req[r])

C1_Witness ==
    \E r \in Slots :
        /\ req[r].pc = "done" /\ req[r].title = "Success!"
        /\ Called(req[r], "spawn") /\ req[r].proc = "running"

(* C2: After a successful token exchange and groups fetch with the         *)
(* required group, a fetched role list disjoint from the required set      *)
(* gives the access-denied page with status 200 and no spawn; a role list  *)
(* holding any one required id passes the role check.                      *)
C2_RoleCheck ==
    \A r \in Slots :
        LET q == req[r] IN
        (/\ q.route = "/callback"
         /\ Ok(q.tokenResponse)
         /\ Ok(q.guildsResponse) /\ REQUIRED_SERVER_ID \in q.guilds
         /\ Ok(q.memberResponse) /\ Decoded(q.memberResponse))
        => IF q.roles \cap RequiredRoles = {}
           THEN /\ ~Called(q, "spawn") /\ q.proc = "none"
                /\ q.pc \in {"readFile", "done"}
                /\ q.pc = "done" =>
                     Answers(q, 200, "Access Denied", RoleDeniedContent)
           ELSE /\ q.pc \in {"spawn", "stdout", "stderr"} \/ Called(q, "spawn")
                /\ q.title # "Access Denied"

C2_Witness ==
    \E r, o \in Slots :
        /\ Len(REQUIRED_ROLE_IDS) = 2
        /\ req[r].pc = "done" /\ req[r].roles = {"c"}
        /\ Ok(req[r].memberResponse)
        /\ req[r].title = "Access Denied" /\ req[r].status = 200
        /\ req[o].roles = {"b", "c"} /\ Called(req[o], "spawn")

(* C3: After a successful token exchange, a successful groups fetch whose  *)
(* list lacks the required group id gives status 200 with the group        *)
(* access-denied page; neither the role fetch nor the command is invoked.  *)
C3_NotInServerDenied ==
    \A r \in Slots :
        LET q == req[r] IN
        (/\ q.route = "/callback"
         /\ Ok(q.tokenResponse)
         /\ Ok(q.guildsResponse) /\ Decoded(q.guildsResponse)
         /\ REQUIRED_SERVER_ID \notin q.guilds)
        => /\ ~Called(q, "member") /\ q.memberResponse = NoResponse
           /\ ~Called(q, "spawn") /\ q.proc = "none"
           /\ q.pc \in {"readFile", "done"}
           /\ q.pc = "done" =>
                Answers(q, 200, "Access Denied", ServerDeniedContent)

C3_Witness ==
    \E r \in Slots :
        /\ req[r].pc = "done" /\ req[r].guilds = {"g2"}
        /\ Ok(req[r].guildsResponse) /\ Decoded(req[r].guildsResponse)
        /\ req[r].title = "Access Denied" /\ req[r].status = 200

(* C4, as claimed: every non-success status s of the token exchange is     *)
(* answered with status s and the exchange-error page.                     *)
C4_Original ==
    \A r \in Slots :
        LET q == req[r] IN
        (/\ q.route = "/callback" /\ q.pc = "done"
         /\ Answered(q.tokenResponse) /\ ~Ok(q.tokenResponse))
        => /\ q.status = q.tokenResponse.status
           /\ q.title = "Login Error"

(* C4, amended: a non-success status s of the token exchange whose body    *)
(* decodes to a JSON object is answered with status s and the              *)
(* exchange-error page; when the body does not decode, or is null, the     *)
(* answer is 500 with the system-error page.  In both cases the groups     *)
(* fetch, the role fetch and the command are never attempted.              *)
C4_TokenErrorForwarded ==
    \A r \in Slots :
        LET q == req[r] IN
        (/\ q.route = "/callback"
         /\ Answered(q.tokenResponse) /\ ~Ok(q.tokenResponse))
        => /\ q.calls = << "token" >>
           /\ q.guildsResponse = NoResponse /\ q.memberResponse = NoResponse
           /\ q.proc = "none"
           /\ q.pc \in {"readFile", "done"}
           /\ q.pc = "done" =>
                IF Decoded(q.tokenResponse)
                THEN Answers(q, q.tokenResponse.status, "Login Error",
                             ExchangeErrorContent("invalid_grant"))
                ELSE Answers(q, 500, "System Error", UnexpectedContent)

C4_Witness ==
    \E r \in Slots :
        /\ req[r].pc = "done"
        /\ req[r].tokenResponse = [status |-> 401, body |-> "object"]
        /\ req[r].status = 401 /\ req[r].title = "Login Error"

(* C5: A /callback request with no code, or an empty one, is answered with *)
(* status 400 and the error page, makes no outbound call and spawns        *)
(* nothing.                                                                *)
C5_NoCodeNoCalls ==
    \A r \in Slots :
        LET q == req[r] IN
        (q.route = "/callback" /\ Falsy(q.code))
        => /\ q.calls = << >>
           /\ q.tokenResponse = NoResponse /\ q.guildsResponse = NoResponse
           /\ q.memberResponse = NoResponse /\ q.proc = "none"
           /\ q.pc \in {"readFile", "done"}
           /\ q.pc = "done" => Answers(q, 400, "Error", NoCodeContent)

C5_Witness ==
    \E r, o \in Slots :
        /\ req[r].route = "/callback" /\ req[r].code = Absent
        /\ req[r].pc = "done" /\ req[r].status = 400
        /\ req[o].route = "/callback" /\ req[o].code = ""
        /\ req[o].pc = "done" /\ req[o].status = 400

\* The success page's preformatted block holds exactly this text.
PreBlockHolds(body, text) ==
    \E i \in 1..(Len(body) - 2) :
        /\ body[i] = SuccessContent(text)[1]
        /\ body[i+1] = text
        /\ body[i+2] = "</pre>"

\* The template on disk can be read and holds the body placeholder.
TemplateUsable ==
    /\ templateFile # Unreadable
    /\ \E i \in 1..Len(templateFile) : templateFile[i] = MESSAGE

(* C6, as claimed, on the requests answered with the success page through  *)
(* a readable template that holds the body placeholder: when steps 1-4     *)
(* pass, the command is invoked exactly once and the text it wrote to      *)
(* standard output is the text inside the success page's preformatted      *)
(* block.                                                                  *)
C6_Original ==
    \A r \in Slots :
        LET q == req[r] IN
        (Verified(q) /\ q.pc = "done" /\ q.title = "Success!" /\ TemplateUsable)
        => /\ Times(q, "spawn") = 1
           /\ PreBlockHolds(q.body, q.stdout)

(* C7, as claimed, on the upstream answers whose body decodes to a JSON    *)
(* object: a non-success status s at the token exchange, the groups fetch  *)
(* or the role fetch is the status of the /callback response.              *)
C7_Original ==
    \A r \in Slots :
        LET q == req[r] IN
        (q.route = "/callback" /\ q.pc = "done")
        => \A response \in {q.tokenResponse, q.guildsResponse, q.memberResponse} :
               (Answered(response) /\ ~Ok(response) /\ Decoded(response))
               => q.status = response.status

\* The token step throws: fetch rejects, json() rejects, or null is read.
TokenThrows(q) ==
    \/ q.tokenResponse = NetworkError
    \/ Answered(q.tokenResponse) /\ ~Decoded(q.tokenResponse)

\* A fetch step throws: fetch rejects, json() rejects, or null is read as
\* the list (the error branch only logs its body).
FetchThrows(response) ==
    \/ response = NetworkError
    \/ response.body = "invalid"
    \/ Ok(response) /\ response.body = "null"

(* C8: An exception raised in steps 2-5 of /callback ends the request with *)
(* status 500 and the system-error page of the route's own guards; no      *)
(* later pipeline step runs after it.                                      *)
C8_ExceptionsBecome500 ==
    \A r \in Slots :
        LET q == req[r] IN
        (/\ q.route = "/callback"
         /\ \/ TokenThrows(q)
            \/ FetchThrows(q.guildsResponse)
            \/ FetchThrows(q.memberResponse)
            \/ q.proc = "failed")
        => /\ q.pc \in {"readFile", "done"}
           /\ q.status = 500
           /\ q.title = "System Error"
           /\ q.messageContent \in {UnexpectedContent, CommandFailedContent}
           /\ q.pc = "done" => Rendered(q)
           /\ IF TokenThrows(q)
              THEN /\ q.calls = << "token" >>
                   /\ q.guildsResponse = NoResponse
              ELSE IF FetchThrows(q.guildsResponse)
              THEN /\ q.calls = << "token", "guilds" >>
                   /\ q.memberResponse = NoResponse
              ELSE IF FetchThrows(q.memberResponse)
              THEN q.calls = << "token", "guilds", "member" >> /\ q.proc = "none"
              ELSE /\ q.calls = << "token", "guilds", "member", "spawn" >>
                   /\ q.stdout = "" /\ q.stderr = ""

C8_Witness ==
    \E r, o \in Slots :
        /\ req[r].pc = "done" /\ req[r].status = 500
        /\ req[r].guildsResponse = [status |-> 200, body |-> "invalid"]
        /\ req[o].pc = "done" /\ req[o].status = 500
        /\ req[o].memberResponse = NetworkError

\* One of the six settings is not in the environment.
SettingAbsent ==
    \/ \E n \in PlainSettings : env[n] = Absent
    \/ ~envRoleIds.defined

\* The permission-tag setting names no tag: only commas and blanks.
TagSetEmpty ==
    \A i \in 1..Len(envRoleIds.chars) : envRoleIds.chars[i] \in {",", " "}

(* C9: With one of the six settings absent, or an empty parsed tag set,    *)
(* startup ends with a non-zero exit status, the listener is never bound   *)
(* and no request is served; the listener is bound only when all six are   *)
(* present and the tag set is non-empty.                                   *)
C9_StartupValidation ==
    /\ (SettingAbsent \/ TagSetEmpty) =>
          /\ phase \in {"boot", "exited"}
          /\ \A r \in Slots : req[r] = IdleRequest
    /\ phase = "exited" => exitCode > 0
    /\ phase = "listening" =>
          /\ ~SettingAbsent /\ ~TagSetEmpty
          /\ REQUIRED_ROLE_IDS # << >>
          /\ exitCode = -1

C9_Witness ==
    /\ phase = "exited" /\ exitCode = 1
    /\ env["COMMAND_TO_RUN"] = Absent
    /\ \A n \in PlainSettings \ {"COMMAND_TO_RUN"} : env[n] = SettingValue[n]
    /\ envRoleIds.defined /\ ~TagSetEmpty

(* C10: With an unreadable template file renderHtml never throws: every    *)
(* call, on every route and in the error handler, returns the fallback     *)
(* text, however often it is repeated and however calls interleave.        *)
C10_FallbackNeverThrows ==
    templateFile = Unreadable =>
        /\ htmlTemplate = << >>
        /\ \A r \in Slots :
              /\ req[r].pc # "crashed"
              /\ (req[r].pc = "done" /\ req[r].route # "/login")
                    => req[r].body = Fallback

C10_Witness ==
    /\ templateFile = Unreadable
    /\ \E r, o \in Slots :
          /\ req[r].route = "*" /\ req[r].pc = "done" /\ req[r].body = Fallback
          /\ req[o].route = "/callback" /\ req[o].pc = "done"
          /\ req[o].body = Fallback /\ req[o].title = "Success!"

(* C11, as claimed: the template file is read at most once in the life of  *)
(* the process, whatever the interleaving of the render calls.             *)
C11_Original == reads <= 1

(* C11, amended: only a render call that finds the cache empty reads the   *)
(* file; once a read has stored non-empty text no later call starts a      *)
(* read.  Calls made while a first read is in flight, after a failed read  *)
(* or against an empty file read again.                                    *)
C11_NoReadOnceCached ==
    [][htmlTemplate # << >> =>
          \A r \in Slots : req'[r].pc = "readFile" => req[r].pc = "readFile"]_vars

C11_Witness ==
    /\ reads = 1 /\ htmlTemplate # << >>
    /\ \A r \in Slots : req[r].pc = "done" /\ req[r].route # "/login"

\* The body holds the landing page's login link.
HoldsLoginLink(body) == \E i \in 1..Len(body) : body[i] = LandingContent[1]

(* C12, as claimed: every answer to GET / has status 200 and a body that   *)
(* holds the login link, whatever the state of the template cache and of   *)
(* the other requests.                                                     *)
C12_Original ==
    \A r \in Slots :
        (req[r].route = "/" /\ req[r].pc = "done") =>
            req[r].status = 200 /\ HoldsLoginLink(req[r].body)

(* C12, amended: every answer to GET / has status 200; its body holds the  *)
(* login link when the template file is readable and holds the body        *)
(* placeholder, and is the fallback text when the file cannot be read.     *)
C12_LandingPage ==
    \A r \in Slots :
        (req[r].route = "/" /\ req[r].pc = "done") =>
            /\ req[r].status = 200
            /\ TemplateUsable => HoldsLoginLink(req[r].body)
            /\ templateFile = Unreadable => req[r].body = Fallback

C12_Witness ==
    \E r, o \in Slots :
        /\ req[r].route = "/" /\ req[r].pc = "done"
        /\ htmlTemplate # << >> /\ HoldsLoginLink(req[r].body)
        /\ req[o].route = "/callback" /\ req[o].pc \notin {"idle", "done"}

\* The pieces a text is made of.
Fragments(text) == {text[i] : i \in 1..Len(text)}

(* C13: the access token a /callback request obtained is never part of     *)
(* what the request logs, of its response body or of its redirect target,  *)
(* on any path; it is not in the template cache, and the request's record  *)
(* holds no token once the response is sent.                               *)
C13_TokenNeverLeaks ==
    /\ IssuedToken \notin Fragments(htmlTemplate)
    /\ \A r \in Slots :
          /\ IssuedToken \notin Fragments(req[r].log)
          /\ IssuedToken \notin Fragments(req[r].body)
          /\ IssuedToken \notin Fragments(req[r].location)
          /\ IssuedToken \notin Fragments(req[r].messageContent)
          /\ req[r].pc = "idle" => req[r].access_token = ""

C13_Witness ==
    \E r \in Slots :
        /\ req[r].pc = "done" /\ req[r].access_token = IssuedToken
        /\ req[r].tokenResponse # NoResponse
        /\ req[r].log # << >> /\ req[r].status = 500

\* The characters of a text that are neither comma nor blank.
Letters(text) == SelectSeq(text, LAMBDA c : c \notin {",", " "})

RECURSIVE Flatten(_)
\* The entries of a list written one after the other.
Flatten(ids) == IF ids = << >> THEN << >> ELSE Head(ids) \o Flatten(Tail(ids))

(* C14: once startup has run on a permission-tag setting, a setting that   *)
(* is empty or made of commas and blanks only has ended the process with   *)
(* exit status 1; any other setting is parsed into entries none of which   *)
(* is empty, starts or ends with a blank or holds a comma, and which       *)
(* together hold the setting's letters in order; "a, b ,,c" gives a, b, c. *)
C14_ParseRoleIds ==
    phase # "boot" =>
        /\ TagSetEmpty => phase = "exited" /\ exitCode = 1
        /\ ~TagSetEmpty =>
              /\ phase = "listening"
              /\ \A i \in 1..Len(REQUIRED_ROLE_IDS) :
                    LET id == REQUIRED_ROLE_IDS[i] IN
                    /\ id # << >>
                    /\ Head(id) # " " /\ id[Len(id)] # " "
                    /\ \A k \in 1..Len(id) : id[k] # ","
              /\ Letters(Flatten(REQUIRED_ROLE_IDS)) = Letters(envRoleIds.chars)
        /\ envRoleIds.chars = ExampleRoleIds =>
              REQUIRED_ROLE_IDS = << << "a" >>, << "b" >>, << "c" >> >>

C14_Witness ==
    /\ phase = "listening"
    /\ envRoleIds.chars = ExampleRoleIds
    /\ Len(REQUIRED_ROLE_IDS) = 3

\* The error page's preformatted block holds exactly this text.
ErrBlockHolds(body, text) ==
    \E i \in 1..(Len(body) - 2) :
        /\ body[i] = CommandStderrContent(text)[1]
        /\ body[i+1] = text
        /\ body[i+2] = "</pre>"

(* C15, as claimed, on the requests answered through a readable template   *)
(* that holds the body placeholder: when the command wrote text to         *)
(* standard error the response is the error page with that text in its     *)
(* preformatted block, never the success page; when the command could not  *)
(* be launched the response is the system-error page with status 500.      *)
C15_Original ==
    \A r \in Slots :
        LET q == req[r] IN
        (q.pc = "done" /\ TemplateUsable) =>
            /\ (q.proc = "running" /\ q.stderr # "") =>
                  /\ q.title = "Error"
                  /\ ErrBlockHolds(q.body, q.stderr)
                  /\ ~PreBlockHolds(q.body, q.stdout)
            /\ q.proc = "failed" =>
                  /\ q.status = 500
                  /\ Answers(q, 500, "System Error", CommandFailedContent)

(* C16: while the service listens, no step of any handler changes the     *)
(* configuration; a step changes the record of one request only and, of    *)
(* the process-wide state, at most the template cache and only when that   *)
(* request's read of the template ends; a step of a /login request changes *)
(* no process-wide state at all; a finished request's status and page stay *)
(* as they are until the response is sent, and its page is built from its  *)
(* own title and content alone.                                            *)
C16_Frame ==
    [][ /\ phase = "listening" => Config' = Config
        /\ \A r, o \in Slots :
              (r # o /\ req'[r] # req[r]) => req'[o] = req[o]
        /\ (htmlTemplate' # htmlTemplate \/ reads' # reads) =>
              \E r \in Slots : /\ req[r].pc = "readFile"
                               /\ req'[r].pc = "done"
                               /\ req[r].route # "/login"
        /\ \A r \in Slots :
              /\ (req'[r].route = "/login" /\ req'[r] # req[r]) =>
                    /\ htmlTemplate' = htmlTemplate /\ reads' = reads
                    /\ req[r].pc = "idle" /\ req'[r].pc = "done"
              /\ req[r].pc = "done" => req'[r] \in {req[r], IdleRequest}
              /\ (req[r].pc # "done" /\ req'[r].pc = "done"
                     /\ req'[r].route # "/login") => Rendered(req'[r])
      ]_vars

C16_Witness ==
    \E r, o \in Slots :
        /\ req[r].route = "/login" /\ req[r].pc = "done"
        /\ req[r].location = AuthorizeUrl
        /\ req[o].route = "/callback" /\ req[o].pc = "done"
        /\ htmlTemplate # << >>

(* C17: with the template file's content fixed, the template cache, once  *)
(* it holds non-empty text, keeps that text under every interleaving of    *)
(* the render calls, and every page that is not the fallback text is the   *)
(* request's title and content put into the text the cache then holds.     *)
C17_CacheStable ==
    [][ /\ htmlTemplate # << >> => htmlTemplate' = htmlTemplate
        /\ \A r \in Slots :
              (req[r].pc # "done" /\ req'[r].pc = "done"
                  /\ req'[r].route # "/login" /\ req'[r].body # Fallback) =>
                 req'[r].body = Substitute(htmlTemplate', req'[r].title,
                                           req'[r].messageContent)
      ]_vars

C17_Witness ==
    /\ reads > 1 /\ htmlTemplate # << >>
    /\ \A r \in Slots :
          /\ req[r].pc = "done" /\ req[r].route # "/login"
          /\ req[r].body = Substitute(htmlTemplate, req[r].title,
                                      req[r].messageContent)
    /\ \E r, o \in Slots : req[r].title # req[o].title

(* C18: when every call a handler waits for returns, a /callback request  *)
(* in flight reaches its response; once the command is spawned the handler *)
(* has read nothing at the stdout step, stdout alone at the stderr step,   *)
(* and stdout then stderr before it renders or responds; a finished        *)
(* request does nothing more than send its one response.                   *)
C18_EventuallyResponds ==
    /\ \A r \in Slots :
          (req[r].route = "/callback" /\ req[r].pc \notin {"idle", "done"})
              ~> (req[r].pc = "done")
    /\ [](\A r \in Slots :
            /\ req[r].pc = "stdout" => req[r].captured = << >>
            /\ req[r].pc = "stderr" => req[r].captured = << "stdout" >>
            /\ (req[r].proc = "running" /\ req[r].pc \in {"readFile", "done"})
                  => req[r].captured = << "stdout", "stderr" >>)
    /\ [][\A r \in Slots :
            req[r].pc = "done" => req'[r] \in {req[r], IdleRequest}]_vars

C18_Witness ==
    \E r, o \in Slots :
        /\ req[r].pc = "done" /\ req[r].proc = "running"
        /\ req[r].stderr # "" /\ req[r].title = "Error"
        /\ req[r].captured = << "stdout", "stderr" >>
        /\ req[o].pc = "done" /\ req[o].title = "Success!"

============================================================================
